---- MODULE Spec2Model ----
(***************************************************************************)
(* Model of main_windows_strict.cpp: a tray utility whose window procedure *)
(* appends the clipboard text to a list file on one hotkey and launches    *)
(* "yt-dlp" for every line of that file on another hotkey or menu command. *)
(*                                                                         *)
(* The list file is a sequence of characters.  std::wofstream and          *)
(* std::wifstream are used without imbue(), so they convert through the    *)
(* "C" locale: a wchar_t above 0xFF cannot be converted, the insertion     *)
(* stops there and the stream turns bad.  The text-mode translation of     *)
(* "\n" to "\r\n" and back is a bijection on the characters modelled and   *)
(* is left out.                                                            *)
(***************************************************************************)
EXTENDS Integers, Sequences, FiniteSets, TLC

VARIABLES
    pc,          \* position of wWinMain: "loop" or "returned"
    window,      \* TRUE while hwnd exists
    hotkeys,     \* ids registered with RegisterHotKey
    trayIcon,    \* TRUE while the NIM_ADD icon is in the tray
    quitPosted,  \* TRUE once PostQuitMessage was called
    clipHeld,    \* TRUE while this thread holds the clipboard open
    file,        \* DOWNLOAD_LIST on disk: [exists, data]
    shell,       \* ShellExecuteW calls issued by the handler of the latest message
    last,        \* the latest message with what its handler observed
    before,      \* file, hotkeys, trayIcon, quitPosted and clipHeld as the latest message found them
    added        \* history: texts inserted into the file since it was last truncated

vars == <<pc, window, hotkeys, trayIcon, quitPosted, clipHeld, file, shell, last, before, added>>

----------------------------------------------------------------------------
\* Bounds of the model

\* longest clipboard text
MaxClipLen == 2
\* characters (with line ends) inserted between two truncations
MaxListLen == 5

----------------------------------------------------------------------------
\* Constants of the program and of windows.h

ID_TRAY == 100
ID_DOWNLOAD == 200
ID_OPEN_LIST == 201
ID_OPEN_FOLDER == 202
ID_CHANGE_HOTKEY == 203
ID_INFO == 204
ID_EXIT == 205
HOTKEY_ADD == 1
HOTKEY_DOWNLOAD == 2
WM_DESTROY == 2
WM_COMMAND == 273
WM_HOTKEY == 786
WM_RBUTTONUP == 517
WM_APP == 32768
WM_TRAY == WM_APP + 1

LOWORD(w) == w % 65536

\* wchar_t values: two narrow characters, the line feed, a character above 0xFF
LF == "LF"
Chars == {"a", "b", LF, "W"}
Encodable(c) == c # "W"

\* std::wstring values up to the bound
Texts == UNION {[1..k -> Chars] : k \in 0..MaxClipLen}

----------------------------------------------------------------------------
\* Files and streams

NoFile == [exists |-> FALSE, data |-> <<>>]
EmptyFile == [exists |-> TRUE, data |-> <<>>]

\* basic_ostream<wchar_t>::operator<< on a wofstream: character by character
\* through codecvt; the first character that does not convert sets badbit,
\* and a bad stream inserts nothing more
RECURSIVE Put(_, _)
Put(st, s) ==
    IF s = <<>> \/ ~st.good THEN st
    ELSE IF Encodable(Head(s))
         THEN Put([st EXCEPT !.data = Append(@, Head(s))], Tail(s))
         ELSE [st EXCEPT !.good = FALSE]

\* file << text << L"\n"
WriteLine(data, text) ==
    Put(Put([data |-> data, good |-> TRUE], text), <<LF>>).data

\* std::getline(f, line): the characters up to the next line feed or the end
RECURSIVE TakeLine(_, _)
TakeLine(s, acc) ==
    IF s = <<>> THEN [line |-> acc, rest |-> <<>>]
    ELSE IF Head(s) = LF THEN [line |-> acc, rest |-> Tail(s)]
    ELSE TakeLine(Tail(s), Append(acc, Head(s)))

\* while (std::getline(f, line)) if (!line.empty()) res.push_back(line);
RECURSIVE ReadLoop(_, _)
ReadLoop(s, res) ==
    IF s = <<>> THEN res
    ELSE LET g == TakeLine(s, <<>>)
         IN  ReadLoop(g.rest, IF g.line # <<>> THEN Append(res, g.line) ELSE res)

----------------------------------------------------------------------------
\* What a handler observed; every handler starts from Obs0

Obs0 == [clip |-> "na", text |-> <<>>, opens |-> 0, closes |-> 0,
         append |-> "na", read |-> "na", trunc |-> "na", menu |-> <<>>]

OpenClipboard(p) == [p EXCEPT !.clipHeld = TRUE, !.obs.opens = @ + 1]
CloseClipboard(p) == [p EXCEPT !.clipHeld = FALSE, !.obs.closes = @ + 1]

ShellExecuteW(p, target, params) ==
    [p EXCEPT !.shell = Append(@, [file |-> target, params |-> params])]

\* Variant: the GlobalLock failure path returns without CloseClipboard
AddLinkLeavesClipboardOpen(p, env) ==
    IF ~env.clip.open THEN [p EXCEPT !.obs.clip = "openFail"]
    ELSE LET p1 == OpenClipboard(p) IN
    IF ~env.clip.handle THEN CloseClipboard([p1 EXCEPT !.obs.clip = "noHandle"])
    ELSE IF ~env.clip.lock THEN [p1 EXCEPT !.obs.clip = "lockFail"]
    ELSE LET text == env.clip.text
             p2 == CloseClipboard([p1 EXCEPT !.obs.clip = "text", !.obs.text = text])
         IN  IF text = <<>> THEN p2
             ELSE IF env.canAppend
                  THEN [p2 EXCEPT !.file = [exists |-> TRUE,
                                            data |-> WriteLine(p2.file.data, text)],
                                  !.obs.append = "ok"]
                  ELSE [p2 EXCEPT !.obs.append = "fail"]

\* Variant: when the open for append fails, the line is written through a second
\* stream opened without std::ios::app
AddLinkWithoutOpenTest(p, env) ==
    IF ~env.clip.open THEN [p EXCEPT !.obs.clip = "openFail"]
    ELSE LET p1 == OpenClipboard(p) IN
    IF ~env.clip.handle THEN CloseClipboard([p1 EXCEPT !.obs.clip = "noHandle"])
    ELSE IF ~env.clip.lock THEN CloseClipboard([p1 EXCEPT !.obs.clip = "lockFail"])
    ELSE LET text == env.clip.text
             p2 == CloseClipboard([p1 EXCEPT !.obs.clip = "text", !.obs.text = text])
         IN  IF text = <<>> THEN p2
             ELSE IF env.canAppend
                  THEN [p2 EXCEPT !.file = [exists |-> TRUE,
                                            data |-> WriteLine(p2.file.data, text)],
                                  !.obs.append = "ok"]
                  ELSE [p2 EXCEPT !.file = [exists |-> TRUE,
                                            data |-> WriteLine(<<>>, text)],
                                  !.obs.append = "fail"]

AddLinkFromClipboard(p, env) ==
    IF ~env.clip.open THEN [p EXCEPT !.obs.clip = "openFail"]
    ELSE LET p1 == OpenClipboard(p) IN
    IF ~env.clip.handle THEN CloseClipboard([p1 EXCEPT !.obs.clip = "noHandle"])
    ELSE IF ~env.clip.lock THEN CloseClipboard([p1 EXCEPT !.obs.clip = "lockFail"])
    ELSE LET text == env.clip.text
             p2 == CloseClipboard([p1 EXCEPT !.obs.clip = "text", !.obs.text = text])
         IN  IF text = <<>> THEN p2
             ELSE IF env.canAppend
                  THEN [p2 EXCEPT !.file = [exists |-> TRUE,
                                            data |-> WriteLine(p2.file.data, text)],
                                  !.obs.append = "ok"]
                  ELSE [p2 EXCEPT !.obs.append = "fail"]

\* The lines ReadList returns, and whether its wifstream opened
ReadList(p, env) ==
    IF p.file.exists /\ env.canRead
    THEN [res |-> ReadLoop(p.file.data, <<>>), p |-> [p EXCEPT !.obs.read = "ok"]]
    ELSE [res |-> <<>>, p |-> [p EXCEPT !.obs.read = "fail"]]

\* Variant: the file is opened for output without being truncated
ClearListKeepsData(p, env) ==
    IF env.canTrunc
    THEN [p EXCEPT !.file = [exists |-> TRUE, data |-> p.file.data], !.obs.trunc = "ok"]
    ELSE [p EXCEPT !.obs.trunc = "fail"]

ClearList(p, env) ==
    IF env.canTrunc
    THEN [p EXCEPT !.file = EmptyFile, !.obs.trunc = "ok"]
    ELSE [p EXCEPT !.obs.trunc = "fail"]

RunDownload(p, url) == ShellExecuteW(p, "cmd.exe", <<"/c ", "yt-dlp ">> \o url)

\* Variant: a URL that was already launched in this pass is skipped
RECURSIVE RunEachOnce(_, _)
RunEachOnce(p, urls) ==
    IF urls = <<>> THEN p
    ELSE RunEachOnce(IF \E i \in 1..Len(p.shell) :
                           p.shell[i].params = <<"/c ", "yt-dlp ">> \o Head(urls)
                     THEN p
                     ELSE RunDownload(p, Head(urls)),
                     Tail(urls))

\* for (const auto &u : urls) RunDownload(u);
RECURSIVE RunEach(_, _)
RunEach(p, urls) ==
    IF urls = <<>> THEN p ELSE RunEach(RunDownload(p, Head(urls)), Tail(urls))

\* Variant: the list is cleared before it is read
DownloadAllClearsFirst(p, env) ==
    LET r == ReadList(ClearList(p, env), env)
    IN  RunEach(r.p, r.res)

DownloadAll(p, env) ==
    LET r == ReadList(p, env)
    IN  ClearList(RunEach(r.p, r.res), env)

ShowInfo(p) == ShellExecuteW(p, "SYSTEM_DIR\\info.txt", <<>>)
OpenDownloads(p) == ShellExecuteW(p, "DOWNLOAD_FOLDER", <<>>)
\* Variant: the list file is created (and so truncated) before it is shown
OpenListCreatesFile(p) == ShellExecuteW([p EXCEPT !.file = EmptyFile], "DOWNLOAD_LIST", <<>>)

OpenList(p) == ShellExecuteW(p, "DOWNLOAD_LIST", <<>>)

UnregisterHotkeys(p) == [p EXCEPT !.hotkeys = @ \ {HOTKEY_ADD, HOTKEY_DOWNLOAD}]
RemoveTrayIcon(p) == [p EXCEPT !.trayIcon = FALSE]
PostQuitMessage(p) == [p EXCEPT !.quitPosted = TRUE]

ShowMenu(p) ==
    [p EXCEPT !.obs.menu = <<ID_DOWNLOAD, ID_OPEN_LIST, ID_OPEN_FOLDER, ID_INFO, ID_EXIT>>]

\* Variant: every hotkey id but HOTKEY_ADD downloads
OnHotkeyElseDownload(p, wParam, env) ==
    IF wParam = HOTKEY_ADD THEN AddLinkFromClipboard(p, env)
    ELSE DownloadAll(p, env)

OnHotkey(p, wParam, env) ==
    IF wParam = HOTKEY_ADD THEN AddLinkFromClipboard(p, env)
    ELSE IF wParam = HOTKEY_DOWNLOAD THEN DownloadAll(p, env)
    ELSE p

OnCommand(p, wParam, env) ==
    CASE LOWORD(wParam) = ID_DOWNLOAD -> DownloadAll(p, env)
      [] LOWORD(wParam) = ID_OPEN_LIST -> OpenList(p)
      [] LOWORD(wParam) = ID_OPEN_FOLDER -> OpenDownloads(p)
      [] LOWORD(wParam) = ID_INFO -> ShowInfo(p)
      [] LOWORD(wParam) = ID_EXIT -> PostQuitMessage(p)
      [] OTHER -> p

OnTray(p, lParam) == IF lParam = WM_RBUTTONUP THEN ShowMenu(p) ELSE p

\* WM_DESTROY arrives while the window is being destroyed: hwnd is gone afterwards
OnDestroy(p) ==
    [PostQuitMessage(RemoveTrayIcon(UnregisterHotkeys(p))) EXCEPT !.window = FALSE]

WndProc(p, msg, wParam, lParam, env) ==
    CASE msg = WM_HOTKEY -> OnHotkey(p, wParam, env)
      [] msg = WM_COMMAND -> OnCommand(p, wParam, env)
      [] msg = WM_TRAY -> OnTray(p, lParam)
      [] msg = WM_DESTROY -> OnDestroy(p)
      [] OTHER -> p

----------------------------------------------------------------------------
\* The state machine

Snapshot == [file |-> file, hotkeys |-> hotkeys, trayIcon |-> trayIcon,
             quitPosted |-> quitPosted, clipHeld |-> clipHeld]

NoMsg == [msg |-> 0, wParam |-> 0, lParam |-> 0, obs |-> Obs0]

Init ==
    /\ pc = "loop"
    /\ window = TRUE
    /\ hotkeys = {HOTKEY_ADD, HOTKEY_DOWNLOAD}
    /\ trayIcon = TRUE
    /\ quitPosted = FALSE
    /\ clipHeld = FALSE
    /\ file \in {NoFile, EmptyFile}
    /\ shell = <<>>
    /\ last = NoMsg
    /\ before = Snapshot
    /\ added = <<>>

\* The clipboard as the handler may find it
ClipInputs ==
    {[open |-> FALSE, handle |-> FALSE, lock |-> FALSE, text |-> <<>>],
     [open |-> TRUE, handle |-> FALSE, lock |-> FALSE, text |-> <<>>],
     [open |-> TRUE, handle |-> TRUE, lock |-> FALSE, text |-> <<>>]}
    \cup {[open |-> TRUE, handle |-> TRUE, lock |-> TRUE, text |-> t] : t \in Texts}

NoClip == [open |-> FALSE, handle |-> FALSE, lock |-> FALSE, text |-> <<>>]
Env0 == [clip |-> NoClip, canAppend |-> FALSE, canRead |-> FALSE, canTrunc |-> FALSE]

RECURSIVE ListSize(_)
ListSize(ts) == IF ts = <<>> THEN 0 ELSE Len(Head(ts)) + 1 + ListSize(Tail(ts))

\* DispatchMessageW(&msg): the window procedure runs to completion
Deliver(msg, wParam, lParam, env) ==
    /\ pc = "loop"
    /\ window
    /\ LET p0 == [window |-> window, hotkeys |-> hotkeys, trayIcon |-> trayIcon,
                  quitPosted |-> quitPosted, clipHeld |-> clipHeld, file |-> file,
                  shell |-> <<>>, obs |-> Obs0]
           p == WndProc(p0, msg, wParam, lParam, env)
       IN  /\ window' = p.window
           /\ hotkeys' = p.hotkeys
           /\ trayIcon' = p.trayIcon
           /\ quitPosted' = p.quitPosted
           /\ clipHeld' = p.clipHeld
           /\ file' = p.file
           /\ shell' = p.shell
           /\ last' = [msg |-> msg, wParam |-> wParam, lParam |-> lParam, obs |-> p.obs]
           /\ before' = Snapshot
           /\ added' = IF p.obs.trunc = "ok" THEN <<>>
                       ELSE IF p.obs.append = "ok" THEN Append(added, p.obs.text)
                       ELSE added
    /\ pc' = pc

\* WM_HOTKEY with the clipboard in one of the states `clips`; the clipboard and the
\* file system answer only the calls the handler makes
HotkeyFrom(clips) ==
    \E id \in {0, HOTKEY_ADD, HOTKEY_DOWNLOAD, 3} :
        IF id = HOTKEY_ADD
        THEN \E clip \in clips :
                /\ ListSize(added) + Len(clip.text) + 1 <= MaxListLen
                /\ \E ca \in (IF clip.text = <<>> THEN {FALSE} ELSE BOOLEAN) :
                       Deliver(WM_HOTKEY, id, 0, [Env0 EXCEPT !.clip = clip, !.canAppend = ca])
        ELSE IF id = HOTKEY_DOWNLOAD
        THEN \E cr \in BOOLEAN, ct \in BOOLEAN :
                Deliver(WM_HOTKEY, id, 0, [Env0 EXCEPT !.canRead = cr, !.canTrunc = ct])
        ELSE Deliver(WM_HOTKEY, id, 0, Env0)

HotkeyMsg ==
    /\ window
    /\ HotkeyFrom(ClipInputs)

\* The same with clipboard texts of a single line only
OneLine(t) == \A i \in 1..Len(t) : t[i] # LF
HotkeyOneLineMsg ==
    /\ window
    /\ HotkeyFrom({c \in ClipInputs : OneLine(c.text)})

\* WM_COMMAND from the popup menu or from anywhere else
CommandMsg ==
    \E w \in {0, ID_DOWNLOAD, ID_OPEN_LIST, ID_OPEN_FOLDER, ID_CHANGE_HOTKEY, ID_INFO,
              ID_EXIT, 65536 + ID_DOWNLOAD} :
        IF LOWORD(w) = ID_DOWNLOAD
        THEN \E cr \in BOOLEAN, ct \in BOOLEAN :
                Deliver(WM_COMMAND, w, 0, [Env0 EXCEPT !.canRead = cr, !.canTrunc = ct])
        ELSE Deliver(WM_COMMAND, w, 0, Env0)

\* the tray icon reports a mouse event
TrayMsg ==
    /\ trayIcon
    /\ \E l \in {WM_RBUTTONUP, 514, 512} : Deliver(WM_TRAY, ID_TRAY, l, Env0)

\* the window is destroyed from outside (DefWindowProc on WM_CLOSE calls DestroyWindow)
DestroyMsg ==
    /\ window
    /\ Deliver(WM_DESTROY, 0, 0, Env0)

\* any other message goes to DefWindowProc
DefaultMsg ==
    /\ window
    /\ \E m \in {0, 15} : Deliver(m, 0, 0, Env0)

\* GetMessageW returns 0 on WM_QUIT and wWinMain returns
GetMessageQuit ==
    /\ pc = "loop"
    /\ quitPosted
    /\ pc' = "returned"
    /\ UNCHANGED <<window, hotkeys, trayIcon, quitPosted, clipHeld, file, shell, last,
                   before, added>>

Next ==
    \/ HotkeyMsg
    \/ CommandMsg
    \/ TrayMsg
    \/ DestroyMsg
    \/ DefaultMsg
    \/ GetMessageQuit

Spec == Init /\ [][Next]_vars

\* The program when nothing with a line break is ever copied to the clipboard
NextOneLine ==
    \/ HotkeyOneLineMsg
    \/ CommandMsg
    \/ TrayMsg
    \/ DestroyMsg
    \/ DefaultMsg
    \/ GetMessageQuit

SpecOneLine == Init /\ [][NextOneLine]_vars

----------------------------------------------------------------------------
\* Vocabulary of the properties

\* the latest message was the add hotkey
IsAdd == last.msg = WM_HOTKEY /\ last.wParam = HOTKEY_ADD

\* the latest message was a download action: the hotkey or the menu command
IsDownload ==
    \/ last.msg = WM_HOTKEY /\ last.wParam = HOTKEY_DOWNLOAD
    \/ last.msg = WM_COMMAND /\ LOWORD(last.wParam) = ID_DOWNLOAD

\* the entries a ReadList that opens file f returns
Stored(f) == ReadLoop(f.data, <<>>)

\* the ShellExecuteW calls that start the downloader for the given URLs
Launches(urls) ==
    [i \in 1..Len(urls) |-> [file |-> "cmd.exe", params |-> <<"/c ", "yt-dlp ">> \o urls[i]]]

IsDownloaderCall(c) == c.file = "cmd.exe"
DownloaderCalls == SelectSeq(shell, IsDownloaderCall)

\* the add handler returned without touching the file
AddIgnored ==
    /\ IsAdd
    /\ \/ last.obs.clip \in {"openFail", "noHandle", "lockFail"}
       \/ last.obs.clip = "text" /\ last.obs.text = <<>>

----------------------------------------------------------------------------
\* C1 as stated: after any download action the persisted list is empty (ReadList
\* returns no entries), whatever the list held before.
C1_ListEmptyAfterDownload == IsDownload => Stored(file) = <<>>

\* C1 amended: after a download action the list file is empty when ClearList's open
\* succeeded, and is exactly the file found before when that open failed; so the list
\* is empty iff the open succeeded or the list held no entries.
C1_ClearedIffTruncOpens ==
    IsDownload =>
        /\ last.obs.trunc \in {"ok", "fail"}
        /\ last.obs.trunc = "ok" => file = EmptyFile
        /\ last.obs.trunc = "fail" => file = before.file
        /\ Stored(file) = <<>> <=> (last.obs.trunc = "ok" \/ Stored(before.file) = <<>>)

C1_Witness ==
    /\ IsDownload
    /\ last.obs.trunc = "ok"
    /\ Len(Stored(before.file)) = 2
    /\ DownloaderCalls = <<>>
    /\ file = EmptyFile

\* C2 as stated: a download action launches the downloader exactly once per URL
\* stored at its start, in file order, nothing skipped and nothing launched twice.
C2_LaunchesEveryStored == IsDownload => shell = Launches(Stored(before.file))

\* C2 amended: a download action whose read of the list file opens launches the
\* downloader once per stored entry, in file order; one whose read does not open
\* launches nothing.
C2_LaunchesWhatWasRead ==
    IsDownload =>
        /\ last.obs.read \in {"ok", "fail"}
        /\ last.obs.read = "ok" => shell = Launches(Stored(before.file))
        /\ last.obs.read = "fail" => shell = <<>>

C2_Witness ==
    /\ IsDownload
    /\ last.obs.read = "ok"
    /\ Stored(before.file) = << <<"a">>, <<"a">> >>
    /\ Len(shell) = 2

\* C3 as stated: an add with non-empty clipboard text whose list file opens appends
\* exactly one line: the entries read back are the former entries followed by one
\* entry equal to the clipboard text.
C3_AppendsOneEntry ==
    (IsAdd /\ last.obs.clip = "text" /\ last.obs.text # <<>> /\ last.obs.append = "ok")
        => Stored(file) = Append(Stored(before.file), last.obs.text)

\* C4 as stated: with no download in between, the stored entries are the added texts
\* in the order they were added, duplicates and non-URLs included.
C4_StoredIsAdded == Stored(file) = added

\* C5: an add event is ignored (file unchanged, nothing launched) when the clipboard
\* does not open, holds no Unicode text, cannot be locked or holds the empty text;
\* in the first three cases CloseClipboard is called iff OpenClipboard succeeded, and
\* the clipboard is not left open.
C5_AddIgnoredSafely ==
    AddIgnored =>
        /\ file = before.file
        /\ shell = <<>>
        /\ last.obs.append = "na"
        /\ ~clipHeld
        /\ last.obs.closes = last.obs.opens
        /\ last.obs.opens = (IF last.obs.clip = "openFail" THEN 0 ELSE 1)

C5_Witness ==
    /\ IsAdd
    /\ last.obs.clip = "lockFail"
    /\ last.obs.opens = 1
    /\ Stored(file) # <<>>

\* C6 as stated: a download action whose list file is missing or does not open for
\* reading launches nothing and leaves the list empty; an add whose output file does
\* not open changes nothing.
C6_FailedOpensLeaveEmpty ==
    /\ (IsDownload /\ last.obs.read = "fail") => (shell = <<>> /\ Stored(file) = <<>>)
    /\ (IsAdd /\ last.obs.append = "fail") => (file = before.file /\ shell = <<>>)

\* C6 amended: a download action whose list file is missing or does not open for
\* reading launches nothing; it leaves the list empty if the file was missing or
\* ClearList's open succeeds and leaves the file as it was otherwise.  An add whose
\* output file does not open changes nothing and launches nothing.
C6_FailedOpensAreSilent ==
    /\ (IsDownload /\ last.obs.read = "fail") =>
          /\ shell = <<>>
          /\ IF last.obs.trunc = "ok" THEN file = EmptyFile ELSE file = before.file
          /\ ~before.file.exists => Stored(file) = <<>>
    /\ (IsAdd /\ last.obs.append = "fail") => (file = before.file /\ shell = <<>>)

C6_Witness ==
    /\ IsAdd
    /\ last.obs.append = "fail"
    /\ last.obs.text = <<"b">>
    /\ Stored(file) = << <<"a">> >>

\* C7 as stated: every entry in the list is launched exactly once, by the first
\* download action handled after it was appended: that action launches all of them
\* and leaves none behind to be lost or launched again, and nothing else launches.
C7_LaunchedExactlyOnce ==
    /\ IsDownload => (shell = Launches(Stored(before.file)) /\ Stored(file) = <<>>)
    /\ ~IsDownload => DownloaderCalls = <<>>

\* C7 amended: a download action launches the stored entries iff its read opens and
\* removes them iff its truncation opens: with both, every entry is launched exactly
\* once and none is left; with the read alone they stay and are launched again by the
\* next download action; with the truncation alone they are dropped unlaunched.  No
\* other message launches a downloader.
C7_LaunchedAndRemovedPerOpen ==
    /\ IsDownload =>
          /\ DownloaderCalls = shell
          /\ shell = Launches(IF last.obs.read = "ok" THEN Stored(before.file) ELSE <<>>)
          /\ Stored(file) = (IF last.obs.trunc = "ok" THEN <<>> ELSE Stored(before.file))
    /\ ~IsDownload => DownloaderCalls = <<>>

C7_Witness ==
    /\ IsDownload
    /\ last.obs.read = "ok"
    /\ last.obs.trunc = "ok"
    /\ shell = Launches(<< <<"a">>, <<"b">> >>)
    /\ Stored(file) = <<>>

\* C8: WM_HOTKEY with id HOTKEY_ADD only adds (no read, no truncation, no launch);
\* WM_HOTKEY with id HOTKEY_DOWNLOAD and WM_COMMAND with ID_DOWNLOAD run the same
\* download (a read, the launches, a truncation, no clipboard access); WM_HOTKEY with
\* any other id changes nothing.
C8_DispatchIsFixed ==
    /\ IsAdd =>
          /\ last.obs.clip # "na"
          /\ last.obs.read = "na" /\ last.obs.trunc = "na"
          /\ shell = <<>>
          /\ last.obs.append = "ok" => file.data = WriteLine(before.file.data, last.obs.text)
          /\ last.obs.append # "ok" => file = before.file
    /\ IsDownload =>
          /\ last.obs.clip = "na" /\ last.obs.append = "na" /\ last.obs.opens = 0
          /\ last.obs.read # "na" /\ last.obs.trunc # "na"
          /\ shell = Launches(IF last.obs.read = "ok" THEN Stored(before.file) ELSE <<>>)
          /\ file = (IF last.obs.trunc = "ok" THEN EmptyFile ELSE before.file)
          /\ [before EXCEPT !.file = file] = Snapshot
    /\ (last.msg = WM_HOTKEY /\ last.wParam \notin {HOTKEY_ADD, HOTKEY_DOWNLOAD}) =>
          /\ before = Snapshot
          /\ shell = <<>>
          /\ last.obs = Obs0

C8_Witness ==
    /\ last.msg = WM_HOTKEY
    /\ last.wParam = 3
    /\ Stored(file) # <<>>

\* C9: the menu commands open-list, open-folder, info and exit and the tray message
\* leave the list file unchanged and launch no downloader; the file differs from the
\* one the latest message found only after the add hotkey or a download action.
C9_OnlyAddAndDownloadTouchList ==
    /\ \/ last.msg = WM_COMMAND
          /\ LOWORD(last.wParam) \in {ID_OPEN_LIST, ID_OPEN_FOLDER, ID_INFO, ID_EXIT}
       \/ last.msg = WM_TRAY
       => (file = before.file /\ DownloaderCalls = <<>>)
    /\ file # before.file => (IsAdd \/ IsDownload)

C9_Witness ==
    /\ last.msg = WM_COMMAND
    /\ LOWORD(last.wParam) = ID_OPEN_LIST
    /\ Len(shell) = 1
    /\ Stored(file) # <<>>

\* C10 as stated: whenever wWinMain has returned, both hotkeys have been unregistered
\* and the tray icon has been removed.
C10_CleanedUpAtReturn == pc = "returned" => (hotkeys = {} /\ ~trayIcon)

====
